---- MODULE Spec2Model ----
(***************************************************************************)
(* A model of aw-core: the interval algorithms of                          *)
(* aw_transform/filter_period_intersect.py, the query evaluator of         *)
(* aw_core/query.py and the in-memory storage strategy of                  *)
(* aw_datastore/storage_strategies.py.                                     *)
(*                                                                         *)
(* Times are integers.  An event is a record                               *)
(*   [timestamp, duration, data]  with duration >= 0,                      *)
(* a time period a record [start, end].                                    *)
(***************************************************************************)
EXTENDS Integers, Sequences, FiniteSets, TLC

\* Bounds of the model.
MaxT == 1
MaxD == 3
MaxLen == 2
MaxEvents == 3

Labels == {"x", "y"}

Timestamps == 0 .. MaxT
Durations == 0 .. MaxD

Event(t, d, l) == [timestamp |-> t, duration |-> d, data |-> l]

\* Events of the first list (and of the stores): every payload.
Events == {Event(t, d, l) : t \in Timestamps, d \in Durations, l \in Labels}

\* Events of a filter list: their payload is never read by the algorithms.
FilterEvents == {Event(t, d, "f") : t \in Timestamps, d \in Durations}

RECURSIVE SeqsUpTo(_, _)
SeqsUpTo(S, n) ==
    IF n = 0 THEN {<<>>}
    ELSE LET shorter == SeqsUpTo(S, n - 1)
         IN  shorter \cup {Append(s, x) : s \in {t \in shorter : Len(t) = n - 1}, x \in S}

Front(s) == SubSeq(s, 1, Len(s) - 1)
Last(s) == s[Len(s)]

Min2(a, b) == IF a <= b THEN a ELSE b
Max2(a, b) == IF a >= b THEN a ELSE b

(***************************************************************************)
(* aw_core.TimePeriod and the ordering of aw_core.models.Event             *)
(***************************************************************************)
TimePeriod(s, e) == [start |-> s, end |-> e]

\* The value of "no period" (Python's None: false in a condition).
NoPeriod == TimePeriod(0 - 1, 0 - 1)

PeriodDuration(p) == p.end - p.start

\* a.intersection(b): the overlapping sub-period or nothing.
Intersection(a, b) ==
    IF Max2(a.start, b.start) >= Min2(a.end, b.end)
    THEN NoPeriod
    ELSE TimePeriod(Max2(a.start, b.start), Min2(a.end, b.end))

\* a.union(b)
PeriodUnionOf(a, b) == TimePeriod(Min2(a.start, b.start), Max2(a.end, b.end))

\* a.gap(b): true iff the periods neither overlap nor touch.
Gap(a, b) == a.end < b.start \/ b.end < a.start

\* Event.__lt__: events are ordered by (timestamp, duration).
EventLt(a, b) ==
    \/ a.timestamp < b.timestamp
    \/ a.timestamp = b.timestamp /\ a.duration < b.duration

RECURSIVE InsertSorted(_, _)
InsertSorted(e, s) ==
    IF s = <<>> THEN <<e>>
    ELSE IF EventLt(e, Head(s)) THEN <<e>> \o s
    ELSE <<Head(s)>> \o InsertSorted(e, Tail(s))

\* sorted(list): a stable sort.
RECURSIVE Sorted(_)
Sorted(s) == IF s = <<>> THEN <<>> ELSE InsertSorted(Last(s), Sorted(Front(s)))

(***************************************************************************)
(* aw_transform/filter_period_intersect.py                                 *)
(***************************************************************************)
_get_event_period(event) ==
    TimePeriod(event.timestamp, event.timestamp + event.duration)

\* A copy that keeps the period it had: the period is not replaced.
_replace_event_period_keepduration(event, period) ==
    [event EXCEPT !.timestamp = period.start]

_replace_event_period(event, period) ==
    [event EXCEPT !.timestamp = period.start, !.duration = PeriodDuration(period)]

\* The input taken as it comes, not sorted.
fpi_sorted_unsorted(evs) == evs

\* Lines 75 and 76 of filter_period_intersect: events = sorted(events).
fpi_sorted(evs) == Sorted(evs)

\* Lines 34-53: the branch one iteration of the sweep takes on the periods
\* of the current pair.
SweepBranch(p1, p2) ==
    IF Intersection(p1, p2) # NoPeriod
    THEN IF p1.end <= p2.end THEN "yield1" ELSE "yield2"
    ELSE IF p1.end <= p2.start THEN "before"
    ELSE IF p2.end <= p1.start THEN "after"
    ELSE "unreachable"

\* Lines 26-53 run to the end: the tuples yielded from positions i and j on.
RECURSIVE _intersecting_eventpairs(_, _, _, _, _)
_intersecting_eventpairs(evs1, evs2, i, j, acc) ==
    IF ~(i < Len(evs1) /\ j < Len(evs2)) THEN acc
    ELSE LET a == evs1[i + 1]
             b == evs2[j + 1]
             a_p == _get_event_period(a)
             b_p == _get_event_period(b)
             br == SweepBranch(a_p, b_p)
             y == <<a, b, Intersection(a_p, b_p)>>
         IN  CASE br = "yield1" -> _intersecting_eventpairs(evs1, evs2, i + 1, j, Append(acc, y))
               [] br = "yield2" -> _intersecting_eventpairs(evs1, evs2, i, j + 1, Append(acc, y))
               [] br = "before" -> _intersecting_eventpairs(evs1, evs2, i + 1, j, acc)
               [] br = "after" -> _intersecting_eventpairs(evs1, evs2, i, j + 1, acc)
               [] OTHER -> _intersecting_eventpairs(evs1, evs2, i + 1, j + 1, acc)

\* Line 78: the comprehension over the yielded tuples.
ClippedEvents(ys) ==
    [k \in 1 .. Len(ys) |-> _replace_event_period(ys[k][1], ys[k][3])]

\* Lines 75-78, as one call.
filter_period_intersect(evs, fevs) ==
    ClippedEvents(_intersecting_eventpairs(fpi_sorted(evs), fpi_sorted(fevs), 0, 0, <<>>))

VARIABLES
    events,          \* filter_period_intersect: the argument events
    filterevents,    \* filter_period_intersect: the argument filterevents
    events1,         \* _intersecting_eventpairs: first (sorted) list
    events2,         \* _intersecting_eventpairs: second (sorted) list
    e1_i,            \* index into events1, from 0
    e2_i,            \* index into events2, from 0
    yielded,         \* the tuples (e1, e2, ip) the generator has yielded
    branch,          \* the branch the last loop iteration took
    iterations,      \* loop iterations run
    result,          \* the list filter_period_intersect returns
    pc,              \* "idle", "call", "loop", "done"
    u_events1,       \* period_union: the argument events1
    u_events2,       \* period_union: the argument events2
    merged_events,   \* the list period_union returns
    u_pc,            \* "idle", "call", "done"
    db,              \* MemoryStorageStrategy.db: bucket id -> list of events
    metadata,        \* MemoryStorageStrategy._metadata: bucket id -> metadata
    ret,             \* the outcome of the last storage operation
    inserted,        \* history: bucket id -> events inserted since the id was
                     \* last created or deleted, in the order of the calls
    query_doc,       \* query: the argument query
    q_limit,         \* query: the argument limit
    q_i,             \* query: top-level transforms evaluated so far
    q_events,        \* query: the local events
    q_result,        \* query: the value returned
    q_exc,           \* query: the exception that left the call
    q_pc,            \* "idle", "loop", "returned", "raised"
    btransform,      \* bucket_transform: the argument btransform
    bt_limit,        \* bucket_transform: the argument limit
    bt_ret,          \* bucket_transform: its outcome
    bt_pc            \* "idle", "call", "done"

fpiVars == <<events, filterevents, events1, events2, e1_i, e2_i, yielded,
             branch, iterations, result, pc>>

unionVars == <<u_events1, u_events2, merged_events, u_pc>>

storeVars == <<db, metadata, ret, inserted>>

queryVars == <<query_doc, q_limit, q_i, q_events, q_result, q_exc, q_pc>>

btVars == <<btransform, bt_limit, bt_ret, bt_pc>>

vars == <<fpiVars, unionVars, storeVars, queryVars, btVars>>

notFpiVars == <<unionVars, storeVars, queryVars, btVars>>
notUnionVars == <<fpiVars, storeVars, queryVars, btVars>>
notStoreVars == <<fpiVars, unionVars, queryVars, btVars>>
notQueryVars == <<fpiVars, unionVars, storeVars, btVars>>
notBtVars == <<fpiVars, unionVars, storeVars, queryVars>>

BucketIds == {"A", "B"}

EmptyMap == [b \in {} |-> <<>>]

NoRet == [op |-> "none", bucket |-> "", limit |-> 0, status |-> "ok",
          events |-> <<>>, buckets |-> EmptyMap]

\* The values the variables of an operation keep while it is not in use.
IdleIntersect ==
    /\ events = <<>>
    /\ filterevents = <<>>
    /\ events1 = <<>>
    /\ events2 = <<>>
    /\ e1_i = 0
    /\ e2_i = 0
    /\ yielded = <<>>
    /\ branch = "none"
    /\ iterations = 0
    /\ result = <<>>
    /\ pc = "idle"

IdleUnion ==
    /\ u_events1 = <<>>
    /\ u_events2 = <<>>
    /\ merged_events = <<>>
    /\ u_pc = "idle"

IdleStore ==
    /\ db = EmptyMap
    /\ metadata = EmptyMap
    /\ ret = NoRet
    /\ inserted = [b \in BucketIds |-> <<>>]

NoResult == [kind |-> "none", eventcount |-> 0, eventlist |-> <<>>, chunked |-> <<>>]

Ok(evs) == [status |-> "ok", events |-> evs]
Raise(exc) == [status |-> exc, events |-> <<>>]

IdleQuery ==
    /\ query_doc = [transforms |-> <<>>, chunk |-> FALSE]
    /\ q_limit = 0
    /\ q_i = 0
    /\ q_events = <<>>
    /\ q_result = NoResult
    /\ q_exc = "none"
    /\ q_pc = "idle"

IdleBt ==
    /\ btransform = [bucket |-> "", filters |-> <<>>]
    /\ bt_limit = 0
    /\ bt_ret = Ok(<<>>)
    /\ bt_pc = "idle"

e1 == events1[e1_i + 1]
e2 == events2[e2_i + 1]
e1_p == _get_event_period(e1)
e2_p == _get_event_period(e2)
ip == Intersection(e1_p, e2_p)

InLoop == pc = "loop" /\ e1_i < Len(events1) /\ e2_i < Len(events2)

\* Each argument list holds at most MaxLen events, the two together at most
\* MaxEvents.
InitIntersect ==
    /\ events \in SeqsUpTo(Events, MaxLen)
    /\ filterevents \in SeqsUpTo(FilterEvents, Min2(MaxLen, MaxEvents - Len(events)))
    /\ events1 = <<>>
    /\ events2 = <<>>
    /\ e1_i = 0
    /\ e2_i = 0
    /\ yielded = <<>>
    /\ branch = "none"
    /\ iterations = 0
    /\ result = <<>>
    /\ pc = "call"
    /\ IdleUnion
    /\ IdleStore
    /\ IdleQuery
    /\ IdleBt

\* filter_period_intersect, lines 75-78: sort both lists, start the generator.
FilterPeriodIntersectCall ==
    /\ pc = "call"
    /\ events1' = fpi_sorted(events)
    /\ events2' = fpi_sorted(filterevents)
    /\ e1_i' = 0
    /\ e2_i' = 0
    /\ pc' = "loop"
    /\ UNCHANGED <<events, filterevents, yielded, branch, iterations, result>>
    /\ UNCHANGED notFpiVars

\* Lines 35-39: the pair intersects and e1 ends first (or both end together).
YieldAdvanceFirst ==
    /\ InLoop
    /\ SweepBranch(e1_p, e2_p) = "yield1"
    /\ yielded' = Append(yielded, <<e1, e2, ip>>)
    /\ e1_i' = e1_i + 1
    /\ branch' = "yield1"
    /\ iterations' = iterations + 1
    /\ UNCHANGED <<events, filterevents, events1, events2, e2_i, result, pc>>
    /\ UNCHANGED notFpiVars

\* Lines 35-41: the pair intersects and e2 ends first.
YieldAdvanceSecond ==
    /\ InLoop
    /\ SweepBranch(e1_p, e2_p) = "yield2"
    /\ yielded' = Append(yielded, <<e1, e2, ip>>)
    /\ e2_i' = e2_i + 1
    /\ branch' = "yield2"
    /\ iterations' = iterations + 1
    /\ UNCHANGED <<events, filterevents, events1, events2, e1_i, result, pc>>
    /\ UNCHANGED notFpiVars

\* Lines 44-46: no intersection, the event ended before the filter event started.
SkipFirst ==
    /\ InLoop
    /\ SweepBranch(e1_p, e2_p) = "before"
    /\ e1_i' = e1_i + 1
    /\ branch' = "before"
    /\ iterations' = iterations + 1
    /\ UNCHANGED <<events, filterevents, events1, events2, e2_i, yielded, result, pc>>
    /\ UNCHANGED notFpiVars

\* Lines 47-49: no intersection, the event started after the filter event ended.
SkipSecond ==
    /\ InLoop
    /\ SweepBranch(e1_p, e2_p) = "after"
    /\ e2_i' = e2_i + 1
    /\ branch' = "after"
    /\ iterations' = iterations + 1
    /\ UNCHANGED <<events, filterevents, events1, events2, e1_i, yielded, result, pc>>
    /\ UNCHANGED notFpiVars

\* The degenerate branch logging the error and advancing neither pointer.
SkipBoth_noadvance ==
    /\ InLoop
    /\ SweepBranch(e1_p, e2_p) = "unreachable"
    /\ branch' = "unreachable"
    /\ iterations' = iterations + 1
    /\ UNCHANGED <<events, filterevents, events1, events2, e1_i, e2_i, yielded,
                   result, pc>>
    /\ UNCHANGED notFpiVars

\* Lines 50-53: "should be unreachable", both pointers skip.
SkipBoth ==
    /\ InLoop
    /\ SweepBranch(e1_p, e2_p) = "unreachable"
    /\ e1_i' = e1_i + 1
    /\ e2_i' = e2_i + 1
    /\ branch' = "unreachable"
    /\ iterations' = iterations + 1
    /\ UNCHANGED <<events, filterevents, events1, events2, yielded, result, pc>>
    /\ UNCHANGED notFpiVars

\* Line 28 fails, line 78: the comprehension over the yielded tuples is returned.
FilterPeriodIntersectReturn ==
    /\ pc = "loop"
    /\ ~(e1_i < Len(events1) /\ e2_i < Len(events2))
    /\ result' = ClippedEvents(yielded)
    /\ pc' = "done"
    /\ UNCHANGED <<events, filterevents, events1, events2, e1_i, e2_i, yielded,
                   branch, iterations>>
    /\ UNCHANGED notFpiVars

NextIntersect ==
    \/ FilterPeriodIntersectCall
    \/ YieldAdvanceFirst
    \/ YieldAdvanceSecond
    \/ SkipFirst
    \/ SkipSecond
    \/ SkipBoth
    \/ FilterPeriodIntersectReturn

SpecIntersect == InitIntersect /\ [][NextIntersect]_vars

\* The sweep reads the periods only: calls whose events all carry one payload.
InitSweep ==
    /\ InitIntersect
    /\ \A k \in DOMAIN events : events[k].data = "x"

\* The call runs on: a step that can be taken is taken.
SpecSweep == InitSweep /\ [][NextIntersect]_vars /\ WF_vars(NextIntersect)

(***************************************************************************)
(* Properties of filter_period_intersect                                   *)
(***************************************************************************)
Intersects(e, f) == Intersection(_get_event_period(e), _get_event_period(f)) # NoPeriod

\* The pairs (position in events, position in filterevents) that intersect.
IntersectingPairs ==
    {p \in (1 .. Len(events)) \X (1 .. Len(filterevents)) :
        Intersects(events[p[1]], filterevents[p[2]])}

\* The sweep run step by step returns what the call run at once returns.
StepwiseAgrees ==
    pc = "done" => result = filter_period_intersect(events, filterevents)

\* C1: filter_period_intersect returns exactly one record per pair (e, f) of
\* events x filterevents whose periods intersect: the number of returned
\* events equals the number of intersecting pairs.
C1_OneRecordPerIntersectingPair ==
    pc = "done" => Len(result) = Cardinality(IntersectingPairs)

\* C2 as stated: the returned list is non-decreasing by (timestamp, duration).
C2_SortedByTimestampDuration ==
    pc = "done" =>
        \A k \in 1 .. Len(result) - 1 : ~EventLt(result[k + 1], result[k])

\* C2 (amended): the returned list is non-decreasing by timestamp.
C2_SortedByTimestamp ==
    pc = "done" =>
        \A k \in 1 .. Len(result) - 1 : result[k].timestamp <= result[k + 1].timestamp

C2_Witness ==
    /\ pc = "done"
    /\ Len(result) = 2
    /\ result[1].timestamp < result[2].timestamp
    /\ events # events1

\* C3: every returned event carries the payload of an event e of events and
\* its period is the non-empty intersection of e's period with the period of
\* an event of filterevents; with no intersecting pair the result is empty.
C3_ClippedWithPayload ==
    pc = "done" =>
        /\ \A k \in 1 .. Len(result) :
              \E i \in 1 .. Len(events), j \in 1 .. Len(filterevents) :
                 LET p == Intersection(_get_event_period(events[i]),
                                       _get_event_period(filterevents[j]))
                 IN  /\ p # NoPeriod
                     /\ result[k].data = events[i].data
                     /\ _get_event_period(result[k]) = p
        /\ (IntersectingPairs = {} => result = <<>>)

C3_Witness ==
    /\ pc = "done"
    /\ Len(result) = 1
    /\ Len(events) = 1
    /\ result[1].data = events[1].data
    /\ result[1].timestamp > events[1].timestamp
    /\ result[1].duration < events[1].duration

\* C15: over lists sorted by (timestamp, duration) the sweep never takes its
\* degenerate branch: a pair without intersection has one period ending at or
\* before the start of the other.
C15_DegenerateBranchUnreachable ==
    /\ branch # "unreachable"
    /\ InLoop => SweepBranch(e1_p, e2_p) # "unreachable"

\* C16: every iteration of the sweep advances at least one pointer and moves
\* none back, the loop has run at most len(events) + len(filterevents)
\* iterations, and the call ends, with one pointer at the end of its list.
C16_SweepTerminates ==
    /\ [][iterations' # iterations =>
             /\ iterations' = iterations + 1
             /\ e1_i' >= e1_i
             /\ e2_i' >= e2_i
             /\ e1_i' + e2_i' > e1_i + e2_i]_vars
    /\ [](iterations <= Len(events) + Len(filterevents))
    /\ [](pc = "done" => (e1_i = Len(events1) \/ e2_i = Len(events2)))
    /\ <>(pc = "done")

\* The sweep has ended after the most iterations its lists allow, the last
\* the degenerate one.
C16_Witness ==
    /\ pc = "done"
    /\ iterations >= 2
    /\ iterations = Len(events) + Len(filterevents) - 1
    /\ branch = "unreachable"

(***************************************************************************)
(* period_union                                                            *)
(***************************************************************************)
\* Only overlapping periods are merged, touching ones are not.
pu_merges_overlaponly(e_p_, le_p) == Intersection(e_p_, le_p) # NoPeriod

\* Line 104: if not e_p.gap(le_p)
pu_merges(e_p_, le_p) == ~Gap(e_p_, le_p)

\* The merged event takes the period of the new event alone.
pu_new_period_onlynew(e_p_, le_p) == e_p_

\* Line 105: new_period = e_p.union(le_p)
pu_new_period(e_p_, le_p) == PeriodUnionOf(e_p_, le_p)

\* Lines 98-108: the loop over the sorted events left after the first.
RECURSIVE pu_fold(_, _)
pu_fold(merged, rest) ==
    IF rest = <<>> THEN merged
    ELSE LET e == Head(rest)
             last_event == Last(merged)
             e_p_ == _get_event_period(e)
             le_p == _get_event_period(last_event)
         IN  IF pu_merges(e_p_, le_p)
             THEN pu_fold(Append(Front(merged),
                                 _replace_event_period(last_event, pu_new_period(e_p_, le_p))),
                          Tail(rest))
             ELSE pu_fold(Append(merged, e), Tail(rest))

\* Lines 94-109.
period_union(evs1, evs2) ==
    LET evs == Sorted(evs1 \o evs2)
    IN  IF evs = <<>> THEN <<>> ELSE pu_fold(<<Head(evs)>>, Tail(evs))

\* Each argument list holds at most MaxLen events, the two together at most
\* MaxEvents; the payloads of the second list are all the same.
InitUnion ==
    /\ u_events1 \in SeqsUpTo(Events, MaxLen)
    /\ u_events2 \in SeqsUpTo(FilterEvents, Min2(MaxLen, MaxEvents - Len(u_events1)))
    /\ merged_events = <<>>
    /\ u_pc = "call"
    /\ IdleIntersect
    /\ IdleStore
    /\ IdleQuery
    /\ IdleBt

PeriodUnion ==
    /\ u_pc = "call"
    /\ merged_events' = period_union(u_events1, u_events2)
    /\ u_pc' = "done"
    /\ UNCHANGED <<u_events1, u_events2>>
    /\ UNCHANGED notUnionVars

NextUnion == PeriodUnion

SpecUnion == InitUnion /\ [][NextUnion]_vars

EndOf(e) == e.timestamp + e.duration

\* C4: the list period_union returns is gap-separated and ascending: each
\* returned event ends strictly before the next one starts.  Two single
\* events that overlap or touch come back as one event covering both, two
\* single events separated by a gap come back as they are.
C4_GapSeparated ==
    u_pc = "done" =>
        /\ \A k \in 1 .. Len(merged_events) - 1 :
              EndOf(merged_events[k]) < merged_events[k + 1].timestamp
        /\ (Len(u_events1) = 1 /\ Len(u_events2) = 1) =>
              LET a == u_events1[1]
                  b == u_events2[1]
              IN  IF EndOf(a) < b.timestamp \/ EndOf(b) < a.timestamp
                  THEN Len(merged_events) = 2
                  ELSE /\ Len(merged_events) = 1
                       /\ merged_events[1].timestamp = Min2(a.timestamp, b.timestamp)
                       /\ EndOf(merged_events[1]) = Max2(EndOf(a), EndOf(b))

C4_Witness ==
    /\ u_pc = "done"
    /\ Len(merged_events) = 2
    /\ Len(u_events1) = 2
    /\ Len(u_events2) = 1
    /\ EndOf(merged_events[1]) + 1 = merged_events[2].timestamp
    /\ \E k \in 1 .. 2 : EndOf(u_events1[k]) = u_events2[1].timestamp

\* Instants are taken at half units, so that the instants strictly between
\* two integer times are among them: instant h stands for the time h / 2.
HalfInstants == 0 .. 2 * (MaxT + MaxD)

Covers(evs, h) ==
    \E k \in 1 .. Len(evs) : 2 * evs[k].timestamp <= h /\ h <= 2 * EndOf(evs[k])

\* C5: the periods period_union returns cover exactly the instants the
\* periods of events1 and events2 cover.
C5_SameCoverage ==
    u_pc = "done" =>
        \A h \in HalfInstants :
            Covers(u_events1 \o u_events2, h) <=> Covers(merged_events, h)

C5_Witness ==
    /\ u_pc = "done"
    /\ Len(merged_events) = 1
    /\ Len(u_events1) = 1
    /\ Len(u_events2) = 1
    /\ merged_events[1].duration > u_events1[1].duration
    /\ merged_events[1].duration > u_events2[1].duration

(***************************************************************************)
(* aw_datastore/storage_strategies.py: MemoryStorageStrategy               *)
(***************************************************************************)
\* Bounds of the store: events the logs may hold altogether, largest limit
\* asked.
MaxLog == 3
MaxLimit == 2

Clients == {"c1", "c2"}
Names == {"None", "n"}

\* The events the store is fed.
StoreEvents == {Event(0, MaxD, "x"), Event(1, MaxD, "x")}

Limits == (0 - 1) .. MaxLimit

MapPut(m, k, v) == [b \in DOMAIN m \cup {k} |-> IF b = k THEN v ELSE m[b]]
MapDel(m, k) == [b \in DOMAIN m \ {k} |-> m[b]]

\* "{}-{}".format(client, hostname), the hostname being "h".
DefaultName(client) == IF client = "c1" THEN "c1-h" ELSE "c2-h"

\* Lines 138-147: the metadata create_bucket stores.
BucketMetadata(bucket_id, client, name) ==
    [id |-> bucket_id,
     name |-> IF name = "None" THEN DefaultName(client) ELSE name,
     type |-> "t",
     client |-> client,
     hostname |-> "h",
     created |-> 0]

\* Python's l[start:] for a list l and an integer start.
PySliceFrom(l, start) ==
    LET n == Len(l)
        s == IF start < 0 THEN Max2(start + n, 0) ELSE Min2(start, n)
    IN  SubSeq(l, s + 1, n)

\* Lines 160-163: MemoryStorageStrategy.get
get(d, bucket, limit) ==
    IF bucket \notin DOMAIN d THEN <<>> ELSE PySliceFrom(d[bucket], 0 - limit)

\* insert_one appending the event to the log of every bucket of the store.
insert_one_alllogs(d, bucket, event) ==
    [b \in DOMAIN d \cup {bucket} |->
        IF b \in DOMAIN d THEN Append(d[b], event) ELSE <<event>>]

\* Lines 168-171: MemoryStorageStrategy.insert_one, the new value of db
insert_one(d, bucket, event) ==
    IF bucket \notin DOMAIN d
    THEN MapPut(d, bucket, <<event>>)
    ELSE MapPut(d, bucket, Append(d[bucket], event))

\* insert_many walking the list from its last event to its first.
RECURSIVE insert_many_reversed(_, _, _)
insert_many_reversed(d, bucket, evs) ==
    IF evs = <<>> THEN d
    ELSE insert_many_reversed(MapPut(d, bucket,
                                     (IF bucket \in DOMAIN d THEN d[bucket] ELSE <<>>)
                                         \o <<Last(evs)>>),
                              bucket, Front(evs))

\* Lines 63-65: StorageStrategy.insert_many, the new value of db
RECURSIVE insert_many(_, _, _)
insert_many(d, bucket, evs) ==
    IF evs = <<>> THEN d
    ELSE insert_many(insert_one(d, bucket, Head(evs)), bucket, Tail(evs))

\* Lines 154-158: buckets() raises KeyError when a log has no metadata.
BucketsRaises(d, m) == \E b \in DOMAIN d : b \notin DOMAIN m

buckets(d, m) == [b \in DOMAIN d |-> m[b]]

Ret(op, bucket, limit, status, evs, bs) ==
    [op |-> op, bucket |-> bucket, limit |-> limit, status |-> status,
     events |-> evs, buckets |-> bs]

InitStore ==
    /\ db = EmptyMap
    /\ metadata = EmptyMap
    /\ ret = NoRet
    /\ inserted = [b \in BucketIds |-> <<>>]
    /\ IdleIntersect
    /\ IdleUnion
    /\ IdleQuery
    /\ IdleBt

\* Lines 137-148
CreateBucket ==
    \E bucket_id \in BucketIds, client \in Clients, name \in Names :
        /\ metadata' = MapPut(metadata, bucket_id, BucketMetadata(bucket_id, client, name))
        /\ db' = MapPut(db, bucket_id, <<>>)
        /\ ret' = Ret("create_bucket", bucket_id, 0, "ok", <<>>, EmptyMap)
        /\ inserted' = [inserted EXCEPT ![bucket_id] = <<>>]
        /\ UNCHANGED notStoreVars

\* Lines 150-152, both statements run.
DeleteBucket ==
    \E bucket_id \in BucketIds :
        /\ bucket_id \in DOMAIN db
        /\ bucket_id \in DOMAIN metadata
        /\ db' = MapDel(db, bucket_id)
        /\ metadata' = MapDel(metadata, bucket_id)
        /\ ret' = Ret("delete_bucket", bucket_id, 0, "ok", <<>>, EmptyMap)
        /\ inserted' = [inserted EXCEPT ![bucket_id] = <<>>]
        /\ UNCHANGED notStoreVars

\* Line 151 raises KeyError: nothing is removed.
DeleteBucketNoLog ==
    \E bucket_id \in BucketIds :
        /\ bucket_id \notin DOMAIN db
        /\ ret' = Ret("delete_bucket", bucket_id, 0, "KeyError", <<>>, EmptyMap)
        /\ UNCHANGED <<db, metadata, inserted>>
        /\ UNCHANGED notStoreVars

\* Line 151 removes the log, line 152 raises KeyError.
DeleteBucketNoMetadata ==
    \E bucket_id \in BucketIds :
        /\ bucket_id \in DOMAIN db
        /\ bucket_id \notin DOMAIN metadata
        /\ db' = MapDel(db, bucket_id)
        /\ ret' = Ret("delete_bucket", bucket_id, 0, "KeyError", <<>>, EmptyMap)
        /\ inserted' = [inserted EXCEPT ![bucket_id] = <<>>]
        /\ UNCHANGED metadata
        /\ UNCHANGED notStoreVars

\* Lines 154-158
Buckets ==
    /\ ~BucketsRaises(db, metadata)
    /\ ret' = Ret("buckets", "", 0, "ok", <<>>, buckets(db, metadata))
    /\ UNCHANGED <<db, metadata, inserted>>
    /\ UNCHANGED notStoreVars

\* Lines 154-158 and 166: get_metadata raises KeyError inside buckets().
BucketsKeyError ==
    /\ BucketsRaises(db, metadata)
    /\ ret' = Ret("buckets", "", 0, "KeyError", <<>>, EmptyMap)
    /\ UNCHANGED <<db, metadata, inserted>>
    /\ UNCHANGED notStoreVars

\* Lines 165-166
GetMetadata ==
    \E bucket_id \in BucketIds :
        /\ ret' = IF bucket_id \in DOMAIN metadata
                  THEN Ret("get_metadata", bucket_id, 0, "ok", <<>>,
                           [b \in {bucket_id} |-> metadata[b]])
                  ELSE Ret("get_metadata", bucket_id, 0, "KeyError", <<>>, EmptyMap)
        /\ UNCHANGED <<db, metadata, inserted>>
        /\ UNCHANGED notStoreVars

\* get taking the events it returns out of the log.
Get_consuming ==
    \E bucket \in BucketIds, limit \in Limits :
        /\ ret' = Ret("get", bucket, limit, "ok", get(db, bucket, limit), EmptyMap)
        /\ db' = IF bucket \in DOMAIN db
                 THEN MapPut(db, bucket,
                             SubSeq(db[bucket], 1,
                                    Len(db[bucket]) - Len(get(db, bucket, limit))))
                 ELSE db
        /\ UNCHANGED <<metadata, inserted>>
        /\ UNCHANGED notStoreVars

\* Lines 160-163
Get ==
    \E bucket \in BucketIds, limit \in Limits :
        /\ ret' = Ret("get", bucket, limit, "ok", get(db, bucket, limit), EmptyMap)
        /\ UNCHANGED <<db, metadata, inserted>>
        /\ UNCHANGED notStoreVars

LogLen(bucket) == IF bucket \in DOMAIN db THEN Len(db[bucket]) ELSE 0

\* The events the store holds.
StoredEvents == LogLen("A") + LogLen("B")

\* Lines 168-171
InsertOne ==
    \E bucket \in BucketIds, event \in StoreEvents :
        /\ StoredEvents < MaxLog
        /\ db' = insert_one(db, bucket, event)
        /\ ret' = Ret("insert_one", bucket, 0, "ok", <<event>>, EmptyMap)
        /\ inserted' = [inserted EXCEPT ![bucket] = @ \o <<event>>]
        /\ UNCHANGED metadata
        /\ UNCHANGED notStoreVars

\* Lines 63-65
InsertMany ==
    \E bucket \in BucketIds, evs \in SeqsUpTo(StoreEvents, MaxLen) :
        /\ StoredEvents + Len(evs) <= MaxLog
        /\ db' = insert_many(db, bucket, evs)
        /\ ret' = Ret("insert_many", bucket, 0, "ok", evs, EmptyMap)
        /\ inserted' = [inserted EXCEPT ![bucket] = @ \o evs]
        /\ UNCHANGED metadata
        /\ UNCHANGED notStoreVars

NextStore ==
    \/ CreateBucket
    \/ DeleteBucket
    \/ DeleteBucketNoLog
    \/ DeleteBucketNoMetadata
    \/ Buckets
    \/ BucketsKeyError
    \/ GetMetadata
    \/ Get
    \/ InsertOne
    \/ InsertMany

SpecStore == InitStore /\ [][NextStore]_vars

\* C8: create_bucket on an id the store already holds fails and leaves the
\* bucket's metadata and events as they were.
C8_CreateExistingFails ==
    [][(ret'.op = "create_bucket" /\ ret'.bucket \in DOMAIN metadata)
          => (ret'.status # "ok" /\ db' = db /\ metadata' = metadata)]_vars

\* C9: delete_bucket either fails and leaves the whole store unchanged, or
\* removes both the metadata and the events of the bucket (and then get
\* returns no event for it); it never does one half.
C9_DeleteAllOrNothing ==
    [][ret'.op = "delete_bucket" =>
          \/ /\ ret'.status = "KeyError"
             /\ ret'.bucket \notin DOMAIN db \cup DOMAIN metadata
             /\ db' = db
             /\ metadata' = metadata
          \/ /\ ret'.status = "ok"
             /\ ret'.bucket \in DOMAIN db \cap DOMAIN metadata
             /\ db' = MapDel(db, ret'.bucket)
             /\ metadata' = MapDel(metadata, ret'.bucket)
             /\ get(db', ret'.bucket, 0 - 1) = <<>>
             /\ get(db', ret'.bucket, MaxLimit) = <<>>]_vars

\* The k most recently inserted events of a log, the latest first.
MostRecentFirst(log, k) ==
    [i \in 1 .. Min2(k, Len(log)) |-> log[Len(log) - i + 1]]

\* C10: for a limit k > 0, get returns the min(k, n) most recently inserted
\* events of the bucket, the latest inserted first.
C10_GetMostRecentFirst ==
    (ret.op = "get" /\ ret.limit > 0 /\ ret.bucket \in DOMAIN db)
        => ret.events = MostRecentFirst(db[ret.bucket], ret.limit)

\* C11: get with limit -1 returns every event of the bucket, the oldest
\* included: as many events as were inserted since the bucket was created.
C11_NegativeLimitUnbounded ==
    (ret.op = "get" /\ ret.limit = 0 - 1 /\ ret.bucket \in DOMAIN db)
        => /\ ret.events = db[ret.bucket]
           /\ Len(ret.events) = Len(inserted[ret.bucket])

\* How many times e occurs in the list s.
Count(s, e) == Cardinality({i \in DOMAIN s : s[i] = e})

\* C12: every event get returns for a bucket was inserted into that bucket
\* since the bucket was last created or deleted, and is returned at most as
\* many times as it was inserted; an insert into a bucket changes no get of
\* another bucket.
C12_EventsBelongToBucket ==
    /\ [](ret.op = "get" =>
             \A i \in DOMAIN ret.events :
                 Count(ret.events, ret.events[i])
                     <= Count(inserted[ret.bucket], ret.events[i]))
    /\ [][ret'.op \in {"insert_one", "insert_many"} =>
             \A b \in BucketIds \ {ret'.bucket}, limit \in Limits :
                 get(db', b, limit) = get(db, b, limit)]_vars

\* get has returned two events of A while B holds events and another log.
C12_Witness ==
    /\ ret.op = "get"
    /\ ret.bucket = "A"
    /\ Len(ret.events) = 2
    /\ "B" \in DOMAIN db
    /\ db["B"] # <<>>
    /\ db["B"] # db["A"]

\* insert_one(b, e1); ...; insert_one(b, en), the last call outermost.
RECURSIVE InsertOnes(_, _, _)
InsertOnes(d, bucket, evs) ==
    IF evs = <<>> THEN d
    ELSE insert_one(InsertOnes(d, bucket, Front(evs)), bucket, Last(evs))

\* C13: insert_many(b, evs) leaves the store as insert_one(b, evs[1]); ...;
\* insert_one(b, evs[n]) does: the log of b is its old log followed by evs in
\* their order, and nothing else changes.
C13_InsertManyAppendsInOrder ==
    [][ret'.op = "insert_many" =>
          LET b == ret'.bucket
              evs == ret'.events
              old == IF b \in DOMAIN db THEN db[b] ELSE <<>>
          IN  /\ db' = InsertOnes(db, b, evs)
              /\ evs # <<>> => (b \in DOMAIN db' /\ db'[b] = old \o evs)
              /\ \A b2 \in DOMAIN db \ {b} : b2 \in DOMAIN db' /\ db'[b2] = db[b2]
              /\ DOMAIN db' \subseteq DOMAIN db \cup {b}
              /\ metadata' = metadata]_vars

\* insert_many has appended two different events to a log that held one.
C13_Witness ==
    /\ ret.op = "insert_many"
    /\ Len(ret.events) = 2
    /\ ret.events[1] # ret.events[2]
    /\ ret.bucket \in DOMAIN db
    /\ Len(db[ret.bucket]) = 3

\* C14: get, buckets and get_metadata leave the logs and the metadata
\* unchanged, and a get(bucket, -1) straight after another returns the same
\* list.
C14_ReadsLeaveStoreUnchanged ==
    [][/\ ret'.op \in {"get", "buckets", "get_metadata"}
            => (db' = db /\ metadata' = metadata)
       /\ (/\ ret.op = "get"
           /\ ret'.op = "get"
           /\ ret.limit = 0 - 1
           /\ ret'.limit = 0 - 1
           /\ ret'.bucket = ret.bucket)
            => ret'.events = ret.events]_vars

\* get(bucket, -1) has returned events of a bucket that has metadata.
C14_Witness ==
    /\ ret.op = "get"
    /\ ret.limit = 0 - 1
    /\ ret.events # <<>>
    /\ ret.bucket \in DOMAIN metadata

\* C19: the bucket ids that hold a log are the bucket ids that have
\* metadata, and buckets() never fails.
C19_LogsHaveMetadata ==
    /\ DOMAIN db = DOMAIN metadata
    /\ ret.op = "buckets" => ret.status = "ok"

(***************************************************************************)
(* aw_core/query.py                                                        *)
(***************************************************************************)
\* A field that is not in the document, and a field whose value is no string.
Absent == "<absent>"
NonStr == "<non-str>"

QueryException == "QueryException"

\* A filter document.  haslabels says whether the key "labels" is there.
Filter(name, haslabels, labels, transforms) ==
    [name |-> name, haslabels |-> haslabels, labels |-> labels, transforms |-> transforms]

\* The keys of the module's dict filters (lines 72-76).
filters == {"exclude_labels", "include_labels", "timeperiod_intersect"}

\* transforms.include_labels / exclude_labels: the events whose data holds
\* (holds none) of the labels.
transforms_include_labels(evs, labels) == SelectSeq(evs, LAMBDA e : e.data \in labels)
transforms_exclude_labels(evs, labels) == SelectSeq(evs, LAMBDA e : e.data \notin labels)

\* Event.to_json_dict: the timestamp becomes a string, duration and data stay.
to_json_dict(e) ==
    [timestamp |-> <<"iso8601", e.timestamp>>, duration |-> e.duration, data |-> e.data]

\* A missing "labels" is reported as a malformed query.
include_labels_strict(tfilter, evs) ==
    IF ~tfilter.haslabels THEN Raise(QueryException)
    ELSE Ok(transforms_include_labels(evs, tfilter.labels))

\* Lines 51-56
include_labels(tfilter, evs) ==
    IF ~tfilter.haslabels THEN Ok(<<>>)
    ELSE Ok(transforms_include_labels(evs, tfilter.labels))

\* exclude_labels treating a missing "labels" as include_labels does.
exclude_labels_empty(tfilter, evs) ==
    IF ~tfilter.haslabels THEN Ok(<<>>)
    ELSE Ok(transforms_exclude_labels(evs, tfilter.labels))

\* Lines 58-63
exclude_labels(tfilter, evs) ==
    IF ~tfilter.haslabels THEN Ok(evs)
    ELSE Ok(transforms_exclude_labels(evs, tfilter.labels))

\* The bucket is never looked up among the buckets of the datastore.
bt_validate_noexistence(bt, d, m) ==
    IF bt.bucket = Absent THEN QueryException
    ELSE IF bt.bucket = NonStr THEN QueryException
    ELSE "ok"

\* Lines 7-12: the checks on "bucket"; ds.buckets() is the storage's buckets().
bt_validate(bt, d, m) ==
    IF bt.bucket = Absent THEN QueryException
    ELSE IF bt.bucket = NonStr THEN QueryException
    ELSE IF BucketsRaises(d, m) THEN "KeyError"
    ELSE IF bt.bucket \notin DOMAIN buckets(d, m) THEN QueryException
    ELSE "ok"

RECURSIVE bucket_transform(_, _, _, _)
RECURSIVE bt_apply_filters(_, _, _, _, _)
RECURSIVE tpi_filterevents(_, _, _, _, _)

\* Lines 65-70
timeperiod_intersect(tfilter, evs, d, m, limit) ==
    LET fe == tpi_filterevents(tfilter.transforms, <<>>, d, m, limit)
    IN  IF fe.status # "ok" THEN fe
        ELSE Ok(filter_period_intersect(evs, fe.events))

\* Lines 66-68: filterevents += bucket_transform(...) for each nested transform.
tpi_filterevents(ts, acc, d, m, limit) ==
    IF ts = <<>> THEN Ok(acc)
    ELSE LET r == bucket_transform(Head(ts), d, m, limit)
         IN  IF r.status # "ok" THEN r
             ELSE tpi_filterevents(Tail(ts), acc \o r.events, d, m, limit)

\* Lines 16-25: the filters in declaration order, each on the events so far.
bt_apply_filters(fs, evs, d, m, limit) ==
    IF fs = <<>> THEN Ok(evs)
    ELSE LET vfilter == Head(fs)
             filtername == vfilter.name
         IN  IF filtername = Absent THEN Raise(QueryException)
             ELSE IF filtername = NonStr THEN Raise(QueryException)
             ELSE IF filtername \notin filters THEN Raise(QueryException)
             ELSE LET r == CASE filtername = "include_labels" -> include_labels(vfilter, evs)
                             [] filtername = "exclude_labels" -> exclude_labels(vfilter, evs)
                             [] OTHER -> timeperiod_intersect(vfilter, evs, d, m, limit)
                  IN  IF r.status # "ok" THEN r
                      ELSE bt_apply_filters(Tail(fs), r.events, d, m, limit)

\* Lines 6-26
bucket_transform(bt, d, m, limit) ==
    LET v == bt_validate(bt, d, m)
    IN  IF v # "ok" THEN Raise(v)
        ELSE bt_apply_filters(bt.filters, get(d, bt.bucket, limit), d, m, limit)

(***************************************************************************)
(* The documents and datastores the evaluator is run on                    *)
(***************************************************************************)
\* Bounds of the documents: the transforms and filters, at all depths
\* together, of a query and of a transform evaluated on its own.
MaxQuerySize == 5
MaxTransformSize == 4

\* The logs of the datastores queried.
DsLogs ==
    {<<Event(0, MaxD, "x")>>,
     <<Event(1, 1, "y")>>,
     <<Event(0, MaxD, "x"), Event(1, 1, "y")>>}

\* Datastores in which every log has its metadata: each bucket is absent or
\* holds one of the logs.
Datastores ==
    {ds \in [dom : SUBSET BucketIds, logs : [BucketIds -> DsLogs \cup {<<>>}]] :
        \A b \in BucketIds : (b \in ds.dom) <=> (ds.logs[b] # <<>>)}

DsDb(ds) == [b \in ds.dom |-> ds.logs[b]]
DsMetadata(ds) == [b \in ds.dom |-> BucketMetadata(b, "c1", "None")]

QueryLimits == (0 - 1) .. 1

LabelFilters ==
    {Filter(n, h, {"x"}, <<>>) : n \in {"include_labels", "exclude_labels"}, h \in BOOLEAN}

BadNameFilters == {Filter(n, FALSE, {"x"}, <<>>) : n \in {"nosuch", Absent, NonStr}}

Tpi(ts) == Filter("timeperiod_intersect", FALSE, {"x"}, ts)

\* TransformLists(n, B, L): the lists of transforms that hold at most n
\* transforms and filters, nested ones counted, over the bucket fields B and
\* the leaf filters L.  FilterLists(n, B, L): the same for lists of filters.
RECURSIVE TransformLists(_, _, _)
RECURSIVE FilterLists(_, _, _)
TransformLists(n, B, L) ==
    {<<>>} \cup
    UNION {{<<[bucket |-> b, filters |-> fs]>> \o rest :
               b \in B, fs \in FilterLists(k - 1, B, L), rest \in TransformLists(n - k, B, L)} :
           k \in 1 .. n}

FilterLists(n, B, L) ==
    IF n = 0 THEN {<<>>}
    ELSE {<<>>} \cup
         {<<f>> \o rest : f \in L, rest \in FilterLists(n - 1, B, L)} \cup
         UNION {{<<Tpi(ts)>> \o rest :
                    ts \in TransformLists(k, B, L), rest \in FilterLists(n - 1 - k, B, L)} :
                k \in 0 .. (n - 1)}

\* Does the document name a bucket the datastore does not hold, at any depth?
RECURSIVE NamesMissingBucket(_, _)
NamesMissingBucket(ts, d) ==
    \E k \in 1 .. Len(ts) :
        \/ ts[k].bucket \notin DOMAIN d \cup {Absent, NonStr}
        \/ \E f \in 1 .. Len(ts[k].filters) :
              NamesMissingBucket(ts[k].filters[f].transforms, d)

(***************************************************************************)
(* query                                                                   *)
(***************************************************************************)
QueryLeafFilters ==
    {Filter("exclude_labels", TRUE, {"x"}, <<>>), Filter("nosuch", FALSE, {"x"}, <<>>)}

InitQuery ==
    /\ \E ds \in Datastores : db = DsDb(ds) /\ metadata = DsMetadata(ds)
    /\ ret = NoRet
    /\ inserted = [b \in BucketIds |-> <<>>]
    /\ query_doc \in [transforms : TransformLists(MaxQuerySize, BucketIds, QueryLeafFilters),
                      chunk : BOOLEAN]
    /\ q_limit \in QueryLimits
    /\ q_i = 0
    /\ q_events = <<>>
    /\ q_result = NoResult
    /\ q_exc = "none"
    /\ q_pc = "loop"
    /\ IdleIntersect
    /\ IdleUnion
    /\ IdleBt

QueryLooping == q_pc = "loop" /\ q_i < Len(query_doc.transforms)

\* Lines 31-32: one more top-level transform is evaluated and its events added.
QueryTransform ==
    /\ QueryLooping
    /\ LET r == bucket_transform(query_doc.transforms[q_i + 1], db, metadata, q_limit)
       IN  /\ r.status = "ok"
           /\ q_events' = q_events \o r.events
    /\ q_i' = q_i + 1
    /\ UNCHANGED <<query_doc, q_limit, q_result, q_exc, q_pc>>
    /\ UNCHANGED notQueryVars

\* Line 32: bucket_transform raises, the exception leaves query.
QueryTransformRaises ==
    /\ QueryLooping
    /\ LET r == bucket_transform(query_doc.transforms[q_i + 1], db, metadata, q_limit)
       IN  /\ r.status # "ok"
           /\ q_exc' = r.status
    /\ q_pc' = "raised"
    /\ UNCHANGED <<query_doc, q_limit, q_i, q_events, q_result>>
    /\ UNCHANGED notQueryVars

\* Lines 34-35 and 42: the chunk result.
QueryReturnChunk ==
    /\ q_pc = "loop"
    /\ q_i = Len(query_doc.transforms)
    /\ query_doc.chunk
    /\ q_result' = [kind |-> "chunk", eventcount |-> 0, eventlist |-> <<>>,
                    chunked |-> q_events]
    /\ q_pc' = "returned"
    /\ UNCHANGED <<query_doc, q_limit, q_i, q_events, q_exc>>
    /\ UNCHANGED notQueryVars

\* Lines 36-42: eventcount and eventlist.
QueryReturnEventlist ==
    /\ q_pc = "loop"
    /\ q_i = Len(query_doc.transforms)
    /\ ~query_doc.chunk
    /\ q_result' = [kind |-> "eventlist", eventcount |-> Len(q_events),
                    eventlist |-> [k \in 1 .. Len(q_events) |-> to_json_dict(q_events[k])],
                    chunked |-> <<>>]
    /\ q_pc' = "returned"
    /\ UNCHANGED <<query_doc, q_limit, q_i, q_events, q_exc>>
    /\ UNCHANGED notQueryVars

NextQuery ==
    \/ QueryTransform
    \/ QueryTransformRaises
    \/ QueryReturnChunk
    \/ QueryReturnEventlist

SpecQuery == InitQuery /\ [][NextQuery]_vars

BucketFields == BucketIds \cup {Absent, NonStr}

\* A transform with label filters with and without labels, filters with a
\* bad name and timeperiod_intersect filters, over good and bad bucket fields.
BtTransforms ==
    {[bucket |-> b, filters |-> fs] :
        b \in BucketFields,
        fs \in FilterLists(MaxTransformSize - 1, BucketFields,
                           LabelFilters \cup BadNameFilters)}

InitBt ==
    /\ \E ds \in Datastores : db = DsDb(ds) /\ metadata = DsMetadata(ds)
    /\ ret = NoRet
    /\ inserted = [b \in BucketIds |-> <<>>]
    /\ btransform \in BtTransforms
    /\ bt_limit \in QueryLimits
    /\ bt_ret = Ok(<<>>)
    /\ bt_pc = "call"
    /\ IdleIntersect
    /\ IdleUnion
    /\ IdleQuery

\* Lines 6-26, the call returns its events.
BucketTransform ==
    /\ bt_pc = "call"
    /\ LET r == bucket_transform(btransform, db, metadata, bt_limit)
       IN  /\ r.status = "ok"
           /\ bt_ret' = r
    /\ bt_pc' = "done"
    /\ UNCHANGED <<btransform, bt_limit>>
    /\ UNCHANGED notBtVars

\* Lines 6-26, the call raises.
BucketTransformRaises ==
    /\ bt_pc = "call"
    /\ LET r == bucket_transform(btransform, db, metadata, bt_limit)
       IN  /\ r.status # "ok"
           /\ bt_ret' = r
    /\ bt_pc' = "done"
    /\ UNCHANGED <<btransform, bt_limit>>
    /\ UNCHANGED notBtVars

NextBt ==
    \/ BucketTransform
    \/ BucketTransformRaises

SpecTransform == InitBt /\ [][NextBt]_vars

IsLabelFilter(f) == f.name \in {"include_labels", "exclude_labels"}

HasFilter(bt, P(_)) == \E k \in 1 .. Len(bt.filters) : P(bt.filters[k])

LabelsMissing(f) == IsLabelFilter(f) /\ ~f.haslabels

BadName(f) == f.name \in {Absent, NonStr}

AllFilters(bt, P(_)) == \A k \in 1 .. Len(bt.filters) : P(bt.filters[k])

IncludeWithoutLabels(f) == f.name = "include_labels" /\ ~f.haslabels

ExcludeWithoutLabels(f) == f.name = "exclude_labels" /\ ~f.haslabels

\* C17: a label filter without labels is no error; include_labels then
\* returns the empty list and exclude_labels returns its input unchanged: a
\* transform whose filters are label filters, one an include_labels without
\* labels, returns no event, and a transform whose filters are all
\* exclude_labels without labels returns the events read from the bucket.
C17_MissingLabelsAsymmetric ==
    (bt_pc = "done" /\ btransform.bucket \in DOMAIN db) =>
        /\ (AllFilters(btransform, IsLabelFilter)
               /\ HasFilter(btransform, IncludeWithoutLabels))
              => bt_ret = Ok(<<>>)
        /\ (btransform.filters # <<>>
               /\ AllFilters(btransform, ExcludeWithoutLabels))
              => bt_ret = Ok(get(db, btransform.bucket, bt_limit))

\* An exclude_labels filter without labels has passed two events through.
C17_Witness ==
    /\ bt_pc = "done"
    /\ btransform.bucket \in DOMAIN db
    /\ btransform.filters = <<Filter("exclude_labels", FALSE, {"x"}, <<>>)>>
    /\ Len(bt_ret.events) = 2
    /\ bt_ret.events = db[btransform.bucket]

\* The recursive filter scenario of the spec within the bounds: bucket A
\* holds one long event labelled x, bucket B one short event inside it.
ScenarioA == <<Event(0, MaxD, "x")>>
ScenarioB == <<Event(1, 1, "y")>>

ScenarioTransform ==
    [bucket |-> "A", filters |-> <<Tpi(<<[bucket |-> "B", filters |-> <<>>]>>)>>]

\* The events of the nested transforms ts, each evaluated on its own with
\* the limit of the enclosing call, in declaration order.
RECURSIVE NestedEvents(_)
NestedEvents(ts) ==
    IF ts = <<>> THEN <<>>
    ELSE bucket_transform(Head(ts), db, metadata, bt_limit).events
             \o NestedEvents(Tail(ts))

NestedAllOk(ts) ==
    \A k \in 1 .. Len(ts) : bucket_transform(ts[k], db, metadata, bt_limit).status = "ok"

\* C18: a transform whose one filter is a timeperiod_intersect returns
\* filter_period_intersect(events of its bucket, the events of the nested
\* transforms concatenated in declaration order), the nested transforms being
\* evaluated on the same datastore with the same limit; in the scenario a
\* transform on A filtered by timeperiod_intersect over B returns the one
\* event of A clipped to the period of B's event.
C18_NestedIntersect ==
    bt_pc = "done" =>
        /\ ( /\ btransform.bucket \in DOMAIN db
             /\ Len(btransform.filters) = 1
             /\ btransform.filters[1].name = "timeperiod_intersect"
             /\ NestedAllOk(btransform.filters[1].transforms) )
              => bt_ret = Ok(filter_period_intersect(
                                get(db, btransform.bucket, bt_limit),
                                NestedEvents(btransform.filters[1].transforms)))
        /\ ( /\ db = [b \in BucketIds |-> IF b = "A" THEN ScenarioA ELSE ScenarioB]
             /\ btransform = ScenarioTransform )
              => bt_ret = Ok(<<Event(1, 1, "x")>>)
====
